---- MODULE Spec2Model ----
(***************************************************************************)
(* A model of automailer.py: main acquires one OAuth2 token, reads the     *)
(* contact sheet, chooses a template and then walks the rows in order;     *)
(* each row is checked (pd.isna, is_valid_email), rendered                 *)
(* (str.format), posted to the mail endpoint (send_email) and followed by  *)
(* time.sleep.                                                             *)
(*                                                                         *)
(* A spreadsheet cell is a record [kind, text]: kind is the Python type    *)
(* of the value pandas hands out ("str", "int", "NaN" for an empty cell,   *)
(* "None" for the result of Series.get on a missing column) and text is    *)
(* what str() of the value gives, as a sequence of pieces.  The pieces of  *)
(* an email address are its characters; a name or a company is one piece.  *)
(***************************************************************************)
EXTENDS Integers, Sequences, FiniteSets, TLC

\* ------------------------------------------------------------------ bounds
\* the largest number of data rows of the sheet
MaxRows == 3

\* --------------------------------------------------------------- constants
HTTP_ACCEPTED == 202
THROTTLE_SECONDS == 5
EXIT_FAILURE == 1
EXIT_SUCCESS == 0

\* ------------------------------------------------------------------ cells
StrCell(t) == [kind |-> "str", text |-> t]
IntCell(t) == [kind |-> "int", text |-> t]
NaN == [kind |-> "NaN", text |-> <<"nan">>]
None == [kind |-> "None", text |-> <<"None">>]
\* the value of a column the sheet does not have (never read: see Get)
Absent == [kind |-> "absent", text |-> <<>>]

\* the Email cells a sheet is drawn from
BadAtAtX == <<"b", "a", "d", "@", "@", "x">>
NoTld == <<"a", "@", "b">>
SubExampleCom == <<"a", ".", "b", "-", "c", "@", "s", "u", "b", ".",
                   "e", "x", "a", "m", "p", "l", "e", ".", "c", "o", "m">>
PhoneNumber == <<"1", "2", "3", "4", "5">>
EmailCells == {NaN, IntCell(PhoneNumber), StrCell(BadAtAtX), StrCell(NoTld),
               StrCell(SubExampleCom)}
NameCells == {NaN, StrCell(<<"Bob">>)}
CompanyCells == {NaN, StrCell(<<"Acme">>)}
Columns == {"Email", "Name", "Company"}

\* the templates of EMAIL_TEMPLATES, as sequences of literal pieces and
\* replacement fields
Templates == { <<"Hi ", "{name}", ", from ", "{company}">>,
               <<"Hi ", "{name}">>,
               <<"Hi ", "{name}", ", call ", "{phone}">>,
               <<"Hello">> }
ReplacementFields == {"{name}", "{company}", "{phone}"}

VARIABLES pc, exitCode, fatal, tokenCalls, access_token, header, numRows,
          email_template, index, contact, to_emails, response, posts, log,
          slept

vars == <<pc, exitCode, fatal, tokenCalls, access_token, header, numRows,
          email_template, index, contact, to_emails, response, posts, log,
          slept>>

NoContact == [Email |-> Absent, Name |-> Absent, Company |-> Absent]
NoResponse == [kind |-> "none", status |-> 0]

\* ---------------------------------------------------------- pure functions
Range(s) == {s[i] : i \in 1..Len(s)}

\* Series.get(key, default)
Get(c, key, default) == IF key \in header THEN c[key] ELSE default

\* a test for NaN alone, as math.isnan or v != v would be
IsNaMissesNone(v) == v.kind = "NaN"

\* pd.isna
IsNa(v) == v.kind \in {"NaN", "None"}

\* \w for the characters the model uses
WordChars == {"a", "b", "c", "d", "e", "f", "g", "h", "i", "j", "k", "l", "m",
              "n", "o", "p", "q", "r", "s", "t", "u", "v", "w", "x", "y", "z",
              "0", "1", "2", "3", "4", "5", "6", "7", "8", "9", "_"}
\* [\w\.-]
AddrChars == WordChars \cup {".", "-"}

\* The automaton of ^[\w\.-]+@[\w\.-]+\.\w+$ : 0 before the local part, 1 in
\* it, 2 after the @, 3 in the domain, 4 after a dot of the domain, 5 in the
\* last label.
RegexStep(q, ch) ==
    CASE q = 0 -> IF ch \in AddrChars THEN {1} ELSE {}
      [] q = 1 -> (IF ch \in AddrChars THEN {1} ELSE {})
                    \cup (IF ch = "@" THEN {2} ELSE {})
      [] q = 2 -> IF ch \in AddrChars THEN {3} ELSE {}
      [] q = 3 -> (IF ch \in AddrChars THEN {3} ELSE {})
                    \cup (IF ch = "." THEN {4} ELSE {})
      [] q = 4 -> IF ch \in WordChars THEN {5} ELSE {}
      [] q = 5 -> IF ch \in WordChars THEN {5} ELSE {}

RECURSIVE RegexStates(_, _)
RegexStates(s, n) ==
    IF n = 0 THEN {0}
    ELSE UNION {RegexStep(q, s[n]) : q \in RegexStates(s, n - 1)}

\* re.match(regex, s) is not None; $ also matches before a final newline
RegexMatch(s) ==
    \/ 5 \in RegexStates(s, Len(s))
    \/ /\ Len(s) > 0
       /\ s[Len(s)] = "\n"
       /\ 5 \in RegexStates(s, Len(s) - 1)

\* is_valid_email: re.match raises TypeError for a value that is no string
IsValidEmailRaises(email) == email.kind # "str"
is_valid_email(email) == RegexMatch(email.text)

\* one replacement field of str.format(name=..., company=...)
FieldValue(field, name, company) ==
    IF field = "{name}" THEN name.text ELSE company.text

\* a formatter that fills an unknown field instead of raising
FormatNeverRaises(template) == FALSE

\* str.format raises KeyError for a field that is no keyword argument
FormatRaises(template) ==
    \E i \in 1..Len(template) :
        template[i] \in ReplacementFields \ {"{name}", "{company}"}

RECURSIVE FormatUpTo(_, _, _, _)
FormatUpTo(template, n, name, company) ==
    IF n = 0 THEN <<>>
    ELSE FormatUpTo(template, n - 1, name, company) \o
         (IF template[n] \in ReplacementFields
          THEN FieldValue(template[n], name, company)
          ELSE <<template[n]>>)

\* email_template.format(name=name, company=company)
Format(template, name, company) ==
    FormatUpTo(template, Len(template), name, company)

\* "{company}" in email_template
MentionsCompany(template) == "{company}" \in Range(template)

Subject(template, name, company) ==
    IF MentionsCompany(template)
    THEN company.text \o <<" - Henrich">>
    ELSE name.text \o <<" - Henrich">>

\* the locals of one iteration of the loop
ToEmail == Get(contact, "Email", None)
Name == Get(contact, "Name", StrCell(<<"Friend">>))
Company == Get(contact, "Company", StrCell(<<"Valued Partner">>))

\* the rows a sheet with the given header can hold
Rows(h) ==
    [Email : IF "Email" \in h THEN EmailCells ELSE {Absent},
     Name : IF "Name" \in h THEN NameCells ELSE {Absent},
     Company : IF "Company" \in h THEN CompanyCells ELSE {Absent}]

LogEntry(outcome) == [row |-> index, outcome |-> outcome]

\* -------------------------------------------------------------------- Init
Init ==
    /\ pc = "start"
    /\ exitCode = -1
    /\ fatal = "none"
    /\ tokenCalls = 0
    /\ access_token = "none"
    /\ header = {}
    /\ numRows = 0
    /\ email_template = <<>>
    /\ index = -1
    /\ contact = NoContact
    /\ to_emails = <<>>
    /\ response = NoResponse
    /\ posts = <<>>
    /\ log = <<>>
    /\ slept = <<>>

\* ----------------------------------------------------------------- actions
\* acquire_token returns result["access_token"]
AcquireToken ==
    /\ pc = "start"
    /\ tokenCalls' = tokenCalls + 1
    /\ access_token' = "token"
    /\ pc' = "read"
    /\ UNCHANGED <<exitCode, fatal, header, numRows, email_template, index,
                   contact, to_emails, response, posts, log, slept>>

\* acquire_token without its sys.exit: the failure is logged and None returned
AcquireTokenFailsGoesOn ==
    /\ pc = "start"
    /\ tokenCalls' = tokenCalls + 1
    /\ fatal' = "token"
    /\ pc' = "read"
    /\ UNCHANGED <<exitCode, access_token, header, numRows, email_template,
                   index, contact, to_emails, response, posts, log, slept>>

\* acquire_token: no access_token in the result, sys.exit(1)
AcquireTokenFails ==
    /\ pc = "start"
    /\ tokenCalls' = tokenCalls + 1
    /\ fatal' = "token"
    /\ exitCode' = EXIT_FAILURE
    /\ pc' = "exited"
    /\ UNCHANGED <<access_token, header, numRows, email_template, index,
                   contact, to_emails, response, posts, log, slept>>

\* pd.read_excel succeeds: the sheet has a header and n data rows.  The rows
\* are fixed from here on; the model draws each when iterrows yields it.
ReadContacts ==
    /\ pc = "read"
    /\ \E h \in SUBSET Columns, n \in 0..MaxRows :
          /\ header' = h
          /\ numRows' = n
    /\ pc' = "choose"
    /\ UNCHANGED <<exitCode, fatal, tokenCalls, access_token, email_template,
                   index, contact, to_emails, response, posts, log, slept>>

\* except FileNotFoundError: sys.exit(1)
ReadNotFound ==
    /\ pc = "read"
    /\ fatal' = "not_found"
    /\ exitCode' = EXIT_FAILURE
    /\ pc' = "exited"
    /\ UNCHANGED <<tokenCalls, access_token, header, numRows, email_template,
                   index, contact, to_emails, response, posts, log, slept>>

\* except Exception: sys.exit(1); no file selected (read_excel(None)) ends
\* here too
ReadFails ==
    /\ pc = "read"
    /\ fatal' = "unreadable"
    /\ exitCode' = EXIT_FAILURE
    /\ pc' = "exited"
    /\ UNCHANGED <<tokenCalls, access_token, header, numRows, email_template,
                   index, contact, to_emails, response, posts, log, slept>>

ChooseTemplate ==
    /\ pc = "choose"
    /\ \E t \in Templates : email_template' = t
    /\ pc' = "loop"
    /\ UNCHANGED <<exitCode, fatal, tokenCalls, access_token, header, numRows,
                   index, contact, to_emails, response, posts, log, slept>>

\* a loop that does not wait for the post to return before the next row
NextContactEarly ==
    /\ pc \in {"loop", "posting"}
    /\ index + 1 < numRows
    /\ index' = index + 1
    /\ \E c \in Rows(header) :
          /\ contact' = c
          /\ to_emails' = Append(to_emails, Get(c, "Email", None))
    /\ response' = NoResponse
    /\ pc' = "row"
    /\ UNCHANGED <<exitCode, fatal, tokenCalls, access_token, header, numRows,
                   email_template, posts, log, slept>>

\* iterrows yields the next row; contact.get of the three fields
NextContact ==
    /\ pc = "loop"
    /\ index + 1 < numRows
    /\ index' = index + 1
    /\ \E c \in Rows(header) :
          /\ contact' = c
          /\ to_emails' = Append(to_emails, Get(c, "Email", None))
    /\ response' = NoResponse
    /\ pc' = "row"
    /\ UNCHANGED <<exitCode, fatal, tokenCalls, access_token, header, numRows,
                   email_template, posts, log, slept>>

\* a skip that falls through to the sleep at the end of the iteration
MissingEmailThenSleep ==
    /\ pc = "row"
    /\ IsNa(ToEmail)
    /\ log' = Append(log, LogEntry("SkippedMissingEmail"))
    /\ pc' = "sleep"
    /\ UNCHANGED <<exitCode, fatal, tokenCalls, access_token, header, numRows,
                   email_template, index, contact, to_emails, response, posts,
                   slept>>

\* if pd.isna(to_email): warning, continue
MissingEmail ==
    /\ pc = "row"
    /\ IsNa(ToEmail)
    /\ log' = Append(log, LogEntry("SkippedMissingEmail"))
    /\ pc' = "loop"
    /\ UNCHANGED <<exitCode, fatal, tokenCalls, access_token, header, numRows,
                   email_template, index, contact, to_emails, response, posts,
                   slept>>

\* if not is_valid_email(to_email): warning, continue
InvalidEmail ==
    /\ pc = "row"
    /\ ~IsNa(ToEmail)
    /\ ~IsValidEmailRaises(ToEmail)
    /\ ~is_valid_email(ToEmail)
    /\ log' = Append(log, LogEntry("SkippedInvalidEmail"))
    /\ pc' = "loop"
    /\ UNCHANGED <<exitCode, fatal, tokenCalls, access_token, header, numRows,
                   email_template, index, contact, to_emails, response, posts,
                   slept>>

\* is_valid_email raises TypeError, which nothing catches: the interpreter
\* prints the traceback and exits with status 1
InvalidEmailRaises ==
    /\ pc = "row"
    /\ ~IsNa(ToEmail)
    /\ IsValidEmailRaises(ToEmail)
    /\ exitCode' = EXIT_FAILURE
    /\ pc' = "crashed"
    /\ UNCHANGED <<fatal, tokenCalls, access_token, header, numRows,
                   email_template, index, contact, to_emails, response, posts,
                   log, slept>>

Sendable ==
    /\ pc = "row"
    /\ ~IsNa(ToEmail)
    /\ ~IsValidEmailRaises(ToEmail)
    /\ is_valid_email(ToEmail)

\* except KeyError / except Exception around format: error, continue
RenderFails ==
    /\ Sendable
    /\ FormatRaises(email_template)
    /\ log' = Append(log, LogEntry("SkippedRenderError"))
    /\ pc' = "loop"
    /\ UNCHANGED <<exitCode, fatal, tokenCalls, access_token, header, numRows,
                   email_template, index, contact, to_emails, response, posts,
                   slept>>

\* the body and the subject are built and send_email posts the message
SendEmail ==
    /\ Sendable
    /\ ~FormatRaises(email_template)
    /\ posts' = Append(posts,
                       [row |-> index,
                        to |-> ToEmail.text,
                        subject |-> Subject(email_template, Name, Company),
                        body |-> Format(email_template, Name, Company)])
    /\ pc' = "posting"
    /\ UNCHANGED <<exitCode, fatal, tokenCalls, access_token, header, numRows,
                   email_template, index, contact, to_emails, response, log,
                   slept>>

\* response.status_code == 202
PostAccepted ==
    /\ pc = "posting"
    /\ response' = [kind |-> "status", status |-> HTTP_ACCEPTED]
    /\ log' = Append(log, LogEntry("Sent"))
    /\ pc' = "sleep"
    /\ UNCHANGED <<exitCode, fatal, tokenCalls, access_token, header, numRows,
                   email_template, index, contact, to_emails, posts, slept>>

\* any other status
PostRejected ==
    /\ pc = "posting"
    /\ \E s \in {400, 401, 500} :
          response' = [kind |-> "status", status |-> s]
    /\ log' = Append(log, LogEntry("SendFailed"))
    /\ pc' = "sleep"
    /\ UNCHANGED <<exitCode, fatal, tokenCalls, access_token, header, numRows,
                   email_template, index, contact, to_emails, posts, slept>>

\* send_email without its except clause: the exception leaves main
PostRaisesUncaught ==
    /\ pc = "posting"
    /\ response' = [kind |-> "exception", status |-> 0]
    /\ exitCode' = EXIT_FAILURE
    /\ pc' = "crashed"
    /\ UNCHANGED <<fatal, tokenCalls, access_token, header, numRows,
                   email_template, index, contact, to_emails, posts, log,
                   slept>>

\* except requests.exceptions.RequestException
PostRaises ==
    /\ pc = "posting"
    /\ response' = [kind |-> "exception", status |-> 0]
    /\ log' = Append(log, LogEntry("SendFailed"))
    /\ pc' = "sleep"
    /\ UNCHANGED <<exitCode, fatal, tokenCalls, access_token, header, numRows,
                   email_template, index, contact, to_emails, posts, slept>>

\* time.sleep(5)
Sleep ==
    /\ pc = "sleep"
    /\ slept' = Append(slept, [row |-> index, seconds |-> THROTTLE_SECONDS])
    /\ pc' = "loop"
    /\ UNCHANGED <<exitCode, fatal, tokenCalls, access_token, header, numRows,
                   email_template, index, contact, to_emails, response, posts,
                   log>>

\* the loop is exhausted and main returns
Finish ==
    /\ pc = "loop"
    /\ index + 1 >= numRows
    /\ exitCode' = EXIT_SUCCESS
    /\ pc' = "done"
    /\ UNCHANGED <<fatal, tokenCalls, access_token, header, numRows,
                   email_template, index, contact, to_emails, response, posts,
                   log, slept>>

Next ==
    \/ AcquireToken
    \/ AcquireTokenFails
    \/ ReadContacts
    \/ ReadNotFound
    \/ ReadFails
    \/ ChooseTemplate
    \/ NextContact
    \/ MissingEmail
    \/ InvalidEmail
    \/ InvalidEmailRaises
    \/ RenderFails
    \/ SendEmail
    \/ PostAccepted
    \/ PostRejected
    \/ PostRaises
    \/ Sleep
    \/ Finish

Spec == Init /\ [][Next]_vars

\* ------------------------------------------------------------ the claims
Terminated == pc \in {"done", "exited", "crashed"}
TerminalOutcomes == {"Sent", "SkippedMissingEmail", "SkippedInvalidEmail",
                     "SkippedRenderError", "SendFailed"}
\* the log entries and the posts of row r (r counts from 0, as index does)
EntriesOf(r) == {i \in 1..Len(log) : log[i].row = r}
OutcomesOf(r) == {log[i].outcome : i \in EntriesOf(r)}
PostsFor(r) == Cardinality({i \in 1..Len(posts) : posts[i].row = r})
\* the checks of row r have run: a later row has begun, or row r is the
\* current one and has left the head of its iteration
Checked(r) == r < index \/ (r = index /\ pc # "row")
EmailOf(r) == to_emails[r + 1]
Begun == 0..(Len(to_emails) - 1)
MissingCell(v) == v \in {NaN, None}
\* the language of ^[\w.-]+@[\w.-]+\.\w+$ , stated by the places of the @ and
\* of the last dot
InLanguage(s) ==
    \E e \in {Len(s)} \cup (IF Len(s) > 0 /\ s[Len(s)] = "\n"
                            THEN {Len(s) - 1} ELSE {}) :
      \E at \in 1..e, dot \in 1..e :
        /\ s[at] = "@"
        /\ s[dot] = "."
        /\ 1 < at
        /\ at + 1 < dot
        /\ dot < e
        /\ \A i \in 1..(at - 1) : s[i] \in AddrChars
        /\ \A i \in (at + 1)..(dot - 1) : s[i] \in AddrChars
        /\ \A i \in (dot + 1)..e : s[i] \in WordChars
MatchesPattern(v) == v.kind = "str" /\ InLanguage(v.text)
UnknownField(t) == \E i \in 1..Len(t) : t[i] \in {"{phone}"}

\* C1: once the run is over, every row of the sheet has exactly one terminal
\* outcome out of the five, and at most one post was made for it.
CexC1 ==
    pc \in {"done", "crashed"} =>
        \A r \in 0..(numRows - 1) :
            /\ Cardinality(EntriesOf(r)) = 1
            /\ OutcomesOf(r) \subseteq TerminalOutcomes
            /\ PostsFor(r) <= 1

\* C2: a row whose email is empty or absent (no Email column, or an empty
\* cell) is never posted, and once its checks have run its one outcome is
\* SkippedMissingEmail.
ThmC2 ==
    \A r \in Begun :
        MissingCell(EmailOf(r)) =>
            /\ PostsFor(r) = 0
            /\ Checked(r) =>
                  /\ OutcomesOf(r) = {"SkippedMissingEmail"}
                  /\ Cardinality(EntriesOf(r)) = 1
WitC2 ==
    /\ "Email" \notin header
    /\ index = 1
    /\ pc = "loop"
    /\ OutcomesOf(0) = {"SkippedMissingEmail"}
    /\ OutcomesOf(1) = {"SkippedMissingEmail"}

\* C3: the token is acquired exactly once, before any row is begun; when the
\* acquisition fails or the sheet cannot be read, the process has exited with
\* status 1 at once, no row begun, nothing posted.
ThmC3 ==
    /\ tokenCalls <= 1
    /\ pc # "start" => tokenCalls = 1
    /\ index >= 0 => (tokenCalls = 1 /\ access_token = "token" /\ fatal = "none")
    /\ access_token = "none" => pc \in {"start", "exited"}
    /\ fatal # "none" =>
          /\ pc = "exited"
          /\ exitCode = EXIT_FAILURE
          /\ index = -1
          /\ to_emails = <<>>
          /\ posts = <<>>
          /\ log = <<>>
    /\ pc = "exited" => fatal # "none"
WitC3 ==
    /\ pc = "exited"
    /\ fatal = "token"
    /\ tokenCalls = 1

\* C4: a post that ends in a status other than 202 or in a transport error
\* gives the row the one outcome SendFailed, the row is posted once only, and
\* the run goes on: it pauses and returns to the loop, so the run never ends
\* at a failed row unless that row is the last.
SendHasFailed ==
    /\ response.kind # "none"
    /\ ~(response.kind = "status" /\ response.status = HTTP_ACCEPTED)
ThmC4 ==
    /\ SendHasFailed =>
          /\ pc \in {"sleep", "loop", "done"}
          /\ OutcomesOf(index) = {"SendFailed"}
    /\ \A r \in Begun :
          "SendFailed" \in OutcomesOf(r) =>
              /\ OutcomesOf(r) = {"SendFailed"}
              /\ Cardinality(EntriesOf(r)) = 1
              /\ PostsFor(r) = 1
              /\ pc # "crashed" \/ index > r
              /\ pc = "done" => index = numRows - 1
WitC4 ==
    /\ index = 1
    /\ pc = "posting"
    /\ OutcomesOf(0) = {"SendFailed"}

\* C5: the exit status is 0 unless the token could not be acquired or the
\* sheet could not be read; nothing in a row ends the run abnormally.
CexC5 ==
    Terminated =>
        /\ pc # "crashed"
        /\ (exitCode # EXIT_SUCCESS) <=> (fatal # "none")

\* C6 as stated: the loop pauses after every terminal outcome, the skips
\* included, before it goes on.
CexC6 ==
    pc = "loop" =>
        /\ Len(slept) = Len(log)
        /\ \A i \in 1..Len(log) : slept[i].row = log[i].row

\* C6 as amended: the loop pauses the fixed delay after every send attempt,
\* accepted or failed, and after nothing else: a skipped row is followed by
\* the next row with no pause.
ThmC6 ==
    pc \in {"loop", "row", "posting", "done", "crashed"} =>
        /\ Len(slept) = Len(posts) - (IF pc = "posting" THEN 1 ELSE 0)
        /\ \A i \in 1..Len(slept) :
              /\ slept[i].row = posts[i].row
              /\ slept[i].seconds = THROTTLE_SECONDS
WitC6 ==
    /\ pc = "loop"
    /\ index = 2
    /\ Len(log) = 3
    /\ Len(slept) = 1
    /\ slept[1].row = 1

\* C7: a row with an email that is not missing is SkippedInvalidEmail and is
\* not posted exactly when the email does not match the pattern.
CexC7 ==
    \A r \in Begun :
        (~MissingCell(EmailOf(r)) /\ Checked(r)) =>
            /\ ("SkippedInvalidEmail" \in OutcomesOf(r))
                  <=> ~MatchesPattern(EmailOf(r))
            /\ ~MatchesPattern(EmailOf(r)) => PostsFor(r) = 0

\* C8: with a template that names a field other than name and company, a row
\* that passed the email checks has the one outcome SkippedRenderError, is
\* not posted, does not end the run, and the loop goes on.
ThmC8 ==
    UnknownField(email_template) =>
        /\ posts = <<>>
        /\ \A r \in Begun :
              (MatchesPattern(EmailOf(r)) /\ Checked(r)) =>
                  /\ OutcomesOf(r) = {"SkippedRenderError"}
                  /\ Cardinality(EntriesOf(r)) = 1
                  /\ r = index => pc \in {"loop", "done"}
WitC8 ==
    /\ UnknownField(email_template)
    /\ index = 1
    /\ pc = "row"
    /\ OutcomesOf(0) = {"SkippedRenderError"}

\* C9: for a row with no name (no Name column, or an empty Name cell) and a
\* company, the body posted for a template that names both {name} and
\* {company} holds the default name and never the empty cell's marker, and
\* the subject is the company's; when the template does not name {company}
\* the subject is the name's.
NameAbsent == "Name" \notin header \/ contact.Name = NaN
CompanyPresent == "Company" \in header /\ contact.Company.kind = "str"
CexC9 ==
    (pc = "posting" /\ NameAbsent /\ CompanyPresent) =>
        LET post == posts[Len(posts)] IN
        /\ {"{name}", "{company}"} \subseteq Range(email_template) =>
              /\ "Friend" \in Range(post.body)
              /\ "nan" \notin Range(post.body)
        /\ post.subject = IF "{company}" \in Range(email_template)
                          THEN contact.Company.text \o <<" - Henrich">>
                          ELSE Name.text \o <<" - Henrich">>

\* C10: rows are begun in sheet order, one at a time: while a row is in
\* progress every earlier row has its one outcome and the row itself has
\* none, so log entries and posts are in row order; a sheet of a row with no
\* email, a row with a malformed email and a row with a valid one ends with
\* one post, for the third row, and three entries in row order.
ThreeRowExample ==
    /\ pc = "done"
    /\ numRows = 3
    /\ to_emails = <<NaN, StrCell(BadAtAtX), StrCell(SubExampleCom)>>
    /\ ~UnknownField(email_template)
ThmC10 ==
    /\ Len(to_emails) = index + 1
    /\ \A i, j \in 1..Len(log) : i < j => log[i].row < log[j].row
    /\ \A i, j \in 1..Len(posts) : i < j => posts[i].row < posts[j].row
    /\ \A r \in Begun :
          IF r < index \/ pc \in {"sleep", "loop", "done"}
          THEN Cardinality(EntriesOf(r)) = 1
          ELSE EntriesOf(r) = {}
    /\ \A i \in 1..Len(posts) : posts[i].row \in Begun
    /\ ThreeRowExample =>
          /\ Len(posts) = 1
          /\ posts[1].row = 2
          /\ posts[1].to = SubExampleCom
          /\ [i \in 1..Len(log) |-> log[i].row] = <<0, 1, 2>>
          /\ log[1].outcome = "SkippedMissingEmail"
          /\ log[2].outcome = "SkippedInvalidEmail"
          /\ log[3].outcome \in {"Sent", "SendFailed"}
WitC10 == ThreeRowExample /\ Len(posts) = 1 /\ Len(log) = 3

====
